---- MODULE Spec2Model ----
(***************************************************************************)
(* Task spawning and task lifecycle of pros-rs (src/pros/src/task.rs).     *)
(*                                                                         *)
(* The program side is the code of task.rs: Builder, spawn, spawn_inner,   *)
(* the trampoline TaskEntrypoint::cast_and_call_external and the methods   *)
(* of TaskHandle.  The scheduler behind the pros_sys calls is external to  *)
(* the repository; its primitives are modelled from their contract         *)
(* (spec sections 4.3, 5 and 6) as the lower-case operators task_suspend,  *)
(* task_resume, task_delete, ... and the actions Schedule and JoinWake.    *)
(*                                                                         *)
(* One core: at most one task is Running.  The task that runs the program  *)
(* (MainTask) is the only caller of the API in this model; the spawned     *)
(* tasks run the trampoline and their unit of work.                        *)
(***************************************************************************)
EXTENDS Integers, FiniteSets, Sequences, TLC

\* ---------------------------------------------------------------- bounds
MaxSpawns == 1      \* spawn calls (and so closure records, spawned tasks)
MaxSetters == 3     \* Builder setter calls per Builder
MaxHandles == 2     \* TaskHandle values ever made (spawn, clone, current)
MaxOps == 2         \* TaskHandle method calls
MaxNotify == 2      \* cap of a task's notification counter
MaxTakes == 2       \* get_notification calls
MaxSleeps == 1      \* sleep calls

\* ------------------------------------------------------------ identities
NullTask == 0       \* core::ptr::null(): task_create's failure sentinel
MainTask == 1       \* the task that runs the spawning code
Recs == 1..MaxSpawns                      \* one closure record per spawn call
Spawned == (MainTask + 1)..(MainTask + MaxSpawns)
Tasks == {MainTask} \cup Spawned
Handles == 1..MaxHandles

None == "None"
\* a name with an interior NUL byte, written b\\0g
NulName == "b\\0g"
Names == {"bg", NulName}
Priorities == {"High", "Default", "Low"}
StackDepths == {"Default", "Low"}
Errnos == {"ENOMEM", "EOTHER"}

VARIABLES
  pc,          \* position of the main task in the program
  builder,     \* the Builder under construction: three Options
  lastSet,     \* history: the last argument given to each setter of builder
  nset,        \* setter calls made on builder
  viaSpawn,    \* the running spawn call is the convenience spawn()
  cur,         \* index of the running / latest spawn call (0: none yet)
  createArgs,  \* what the running spawn call handed to task_create
  errno,       \* the scheduler's errno
  createRet,   \* per call: what task_create returned
  createErrno, \* per call: errno after a failed task_create
  ncreate,     \* per call: how many times task_create was called
  result,      \* per call: outcome of Builder::spawn
  resTask,     \* per call: the task field of the TaskHandle returned
  recFrame,    \* per record: storage of `entrypoint` (spawn_inner's frame)
  recOwners,   \* per record: who holds it
  recDrops,    \* per record: times the unit of work was destroyed
  recReads,    \* per record: times it was read through the context pointer
  recInvokes,  \* per record: times the unit of work was invoked
  invokedOn,   \* per record: tasks on which it was invoked
  nameBuf,     \* per call: the CString made for the name
  tstate,      \* scheduler: run state of each task
  tpc,         \* spawned task: position in the trampoline
  tctx,        \* scheduler: context pointer of each task (a record index)
  tprio,       \* scheduler: priority weight of each task
  notif,       \* scheduler: notification counter of each task
  readLive,    \* per task: was the record's storage live when it was read
  hTask,       \* per handle: the task it wraps (NullTask: not made yet)
  hLive,       \* per handle: not yet moved into join/abort
  nops,        \* TaskHandle method calls made
  joinTarget,  \* the task the main task is joining
  joinDone,    \* history: tasks for which a join() call returned
  consumedH,   \* history: handles on which join/abort was called
  consumedT,   \* history: tasks on which join/abort was called
  opViaConsumed, \* history: a method was called through a consumed handle
  opOnConsumed,  \* history: a method was called on a task after join/abort
  abortedEarly,  \* history: tasks aborted before their unit of work started
  lastState,   \* the TaskState the last state() call returned
  take,        \* per task: its latest get_notification call
  ntakes,      \* get_notification calls made
  sleepDur,    \* the Duration given to the latest sleep call
  delayMs,     \* the milliseconds that call handed to delay
  nsleeps,     \* sleep calls made
  stopOp,      \* the handle operation that left its caller unable to run
  paused       \* history: tasks with a pause() not followed by an unpause()

vars == <<pc, builder, lastSet, nset, viaSpawn, cur, createArgs, errno,
          createRet, createErrno, ncreate, result, resTask, recFrame,
          recOwners,
          recDrops, recReads, recInvokes, invokedOn, nameBuf, tstate, tpc,
          tctx, tprio, notif, readLive, hTask, hLive, nops, joinTarget,
          joinDone, consumedH, consumedT, opViaConsumed, opOnConsumed,
          abortedEarly, stopOp, paused, lastState, take, ntakes, sleepDur, delayMs,
          nsleeps>>

builderVars == <<builder, lastSet, nset>>
callVars == <<viaSpawn, cur, createArgs, errno, createRet, createErrno, ncreate,
              result, resTask, nameBuf>>
recVars == <<recFrame, recOwners, recDrops, recReads, recInvokes, invokedOn>>
taskVars == <<tpc, tctx, readLive>>
handleVars == <<hTask, hLive>>
takeVars == <<take, ntakes>>
sleepVars == <<sleepDur, delayMs, nsleeps>>
histVars == <<joinDone, consumedH, consumedT, opViaConsumed, opOnConsumed,
              abortedEarly, stopOp, paused>>


\* ------------------------------------------------------- pure functions
\* PriorityWeight with the discriminants of High and Low exchanged
PriorityWeight_Swapped(p) ==
  CASE p = "High" -> 1
    [] p = "Default" -> 8
    [] p = "Low" -> 16

\* enum TaskPriority, #[repr(u32)], and `priority as _`
PriorityWeight(p) ==
  CASE p = "High" -> 16
    [] p = "Default" -> 8
    [] p = "Low" -> 1

\* enum TaskStackDepth, #[repr(u32)], and `stack_depth as _`
StackBytes(s) ==
  CASE s = "Default" -> 8192
    [] s = "Low" -> 512

\* impl Default for TaskPriority / TaskStackDepth, Option::unwrap_or_default
PriorityOrDefault(o) == IF o = None THEN "Default" ELSE o
StackDepthOrDefault(o) == IF o = None THEN "Default" ELSE o
\* name.unwrap_or("<unnamed>")
NameOrDefault(o) == IF o = None THEN "<unnamed>" ELSE o

\* the bytes of the names
NameBytes(n) ==
  CASE n = "bg" -> <<98, 103>>
    [] n = NulName -> <<98, 0, 103>>
    [] n = "<unnamed>" -> <<60, 117, 110, 110, 97, 109, 101, 100, 62>>
    [] OTHER -> <<>>

\* HasNul with the bytes not looked at (a CString made unchecked)
HasNul_Unchecked(n) == FALSE

\* CString::new(name) is Err when a byte of the name is 0
HasNul(n) == \E i \in 1..Len(NameBytes(n)) : NameBytes(n)[i] = 0

\* CreateAttempts with a second call of task_create after the first
CreateAttempts_Retry(n) == n + 2

\* spawn_inner calls task_create in one place, once
CreateAttempts(n) == n + 1

\* #[derive(Default)] Builder / Builder::new
BuilderDefault == [name |-> None, priority |-> None, stack_depth |-> None]

\* SpawnErrorFromErrno with a catch-all arm: every errno is TCBNotCreated
SpawnErrorFromErrno_Any(e) == "TCBNotCreated"

\* map_errno! { SpawnError { ENOMEM => SpawnError::TCBNotCreated } }
\* (None: the errno has no SpawnError)
SpawnErrorFromErrno(e) == IF e = "ENOMEM" THEN "TCBNotCreated" ELSE None

\* bail_on!(core::ptr::null(), v): does v equal the error sentinel
IsErrState(v) == v = NullTask

\* impl From<u32> for TaskState, on the scheduler's state names
StateCodes == <<"Running", "Ready", "Blocked", "Suspended", "Deleted", "Invalid">>
\* TaskStateFrom with the match arms one code late
TaskStateFrom_Shifted(v) == IF v \in 1..Len(StateCodes) THEN StateCodes[v] ELSE "Invalid"

TaskStateFrom(v) == IF v \in 0..(Len(StateCodes) - 1) THEN StateCodes[v + 1] ELSE "Invalid"

\* --------------------------------------------- the scheduler's primitives
Live(s) == s \in {"Ready", "Running", "Blocked", "Suspended"}
task_suspend(ts, t) == IF Live(ts[t]) THEN [ts EXCEPT ![t] = "Suspended"] ELSE ts
task_resume(ts, t) == IF ts[t] = "Suspended" THEN [ts EXCEPT ![t] = "Ready"] ELSE ts
task_delete(ts, t) == IF Live(ts[t]) THEN [ts EXCEPT ![t] = "Deleted"] ELSE ts
task_get_state(ts, t) ==
  IF \E i \in 1..Len(StateCodes) : StateCodes[i] = ts[t]
  THEN (CHOOSE i \in 1..Len(StateCodes) : StateCodes[i] = ts[t]) - 1
  ELSE Len(StateCodes) - 1
task_notify(nf, t) == [nf EXCEPT ![t] = @ + 1]
\* a notification readies a task that is blocked in task_notify_take
notify_wake(ts, t) ==
  IF t \in Spawned /\ tpc[t] = "taking" /\ ts[t] = "Blocked"
  THEN [ts EXCEPT ![t] = "Ready"] ELSE ts
\* task_notify_take(clear_on_exit, ..): what it leaves of a counter v > 0:
\* nothing when clear_on_exit, else one less
notify_take_leaves(clear, v) == IF v = 0 \/ clear THEN 0 ELSE v - 1
task_set_priority(pr, t, w) == [pr EXCEPT ![t] = w]
\* the identifier task_create gives the next task
NextTask == MainTask + 1 + Cardinality({t \in Spawned : tstate[t] # "none"})

\* no task_create call is in progress
NoArgs == [called |-> FALSE, ctx |-> 0, prio |-> 0, stack |-> 0, name |-> None]

\* no get_notification call was made yet
NoTake == [st |-> "none", pending |-> 0, notified |-> FALSE, waited |-> FALSE,
           ret |-> 0, left |-> 0]

\* no handle operation has stopped its caller
NoStop == [op |-> "none", self |-> FALSE]

\* no sleep call was made yet
NoDuration == [secs |-> 0, nanos |-> 0]

\* a millisecond count, kept as whole seconds and the milliseconds beyond
\* them (a u32 count of milliseconds does not fit a 32-bit signed integer)
NoDelay == [secs |-> 0, millis |-> 0]

\* ------------------------------------------------------------------ Init
Init ==
  /\ pc = "idle"
  /\ builder = BuilderDefault
  /\ lastSet = BuilderDefault
  /\ nset = 0
  /\ viaSpawn = FALSE
  /\ cur = 0
  /\ createArgs = NoArgs
  /\ errno = "none"
  /\ createRet = [k \in Recs |-> NullTask]
  /\ createErrno = [k \in Recs |-> "none"]
  /\ ncreate = [k \in Recs |-> 0]
  /\ result = [k \in Recs |-> "none"]
  /\ resTask = [k \in Recs |-> NullTask]
  /\ recFrame = [k \in Recs |-> "unalloc"]
  /\ recOwners = [k \in Recs |-> {}]
  /\ recDrops = [k \in Recs |-> 0]
  /\ recReads = [k \in Recs |-> 0]
  /\ recInvokes = [k \in Recs |-> 0]
  /\ invokedOn = [k \in Recs |-> {}]
  /\ nameBuf = [k \in Recs |-> "unalloc"]
  /\ tstate = [t \in Tasks |-> IF t = MainTask THEN "Running" ELSE "none"]
  /\ tpc = [t \in Spawned |-> "none"]
  /\ tctx = [t \in Spawned |-> 0]
  /\ tprio = [t \in Tasks |-> IF t = MainTask THEN PriorityWeight("Default") ELSE 0]
  /\ notif = [t \in Tasks |-> 0]
  /\ readLive = [t \in Spawned |-> TRUE]
  /\ hTask = [h \in Handles |-> NullTask]
  /\ hLive = [h \in Handles |-> FALSE]
  /\ nops = 0
  /\ joinTarget = NullTask
  /\ joinDone = {}
  /\ consumedH = {}
  /\ consumedT = {}
  /\ opViaConsumed = FALSE
  /\ opOnConsumed = FALSE
  /\ abortedEarly = {}
  /\ lastState = None
  /\ take = [t \in Spawned |-> NoTake]
  /\ ntakes = 0
  /\ sleepDur = NoDuration
  /\ delayMs = NoDelay
  /\ stopOp = NoStop
  /\ paused = {}
  /\ nsleeps = 0

MainRuns == tstate[MainTask] = "Running"

\* ---------------------------------------------------------------- Builder
\* Builder::new()
BuilderNew ==
  /\ pc = "idle" /\ MainRuns
  /\ cur < MaxSpawns
  /\ pc' = "building"
  /\ builder' = BuilderDefault
  /\ lastSet' = BuilderDefault
  /\ nset' = 0
  /\ UNCHANGED <<callVars, recVars, tstate, taskVars, tprio, notif, handleVars,
                 nops, joinTarget, histVars, lastState, takeVars, sleepVars>>

SetterFrame ==
  /\ pc = "building" /\ MainRuns
  /\ nset < MaxSetters
  /\ nset' = nset + 1
  /\ UNCHANGED <<pc, callVars, recVars, tstate, taskVars, tprio, notif,
                 handleVars, nops, joinTarget, histVars, lastState, takeVars, sleepVars>>

\* Builder::name
BuilderName(n) ==
  /\ SetterFrame
  /\ builder' = [builder EXCEPT !.name = n]
  /\ lastSet' = [lastSet EXCEPT !.name = n]

\* Builder::priority rebuilding the Builder from its default:
\* Self { priority: Some(priority), ..Self::default() }
BuilderPriority_Rebuilds(p) ==
  /\ SetterFrame
  /\ builder' = [BuilderDefault EXCEPT !.priority = p]
  /\ lastSet' = [lastSet EXCEPT !.priority = p]

\* Builder::priority
BuilderPriority(p) ==
  /\ SetterFrame
  /\ builder' = [builder EXCEPT !.priority = p]
  /\ lastSet' = [lastSet EXCEPT !.priority = p]

\* Builder::stack_depth
BuilderStackDepth(s) ==
  /\ SetterFrame
  /\ builder' = [builder EXCEPT !.stack_depth = s]
  /\ lastSet' = [lastSet EXCEPT !.stack_depth = s]


\* ------------------------------------------------------------ spawn_inner
FreeHandles == {h \in Handles : hTask[h] = NullTask}
NewHandle == CHOOSE h \in FreeHandles : \A g \in FreeHandles : h <= g

\* the arguments of pros_sys::task_create, from the Builder's fields
CreateArgs(b, k) ==
  [called |-> TRUE,
   ctx |-> k,
   prio |-> PriorityWeight(PriorityOrDefault(b.priority)),
   stack |-> StackBytes(StackDepthOrDefault(b.stack_depth)),
   name |-> NameOrDefault(b.name)]

\* the scheduler accepts: a new Ready task holding the context pointer
task_create_ok(k, args) ==
  LET t == NextTask IN
  /\ tstate' = [tstate EXCEPT ![t] = "Ready"]
  /\ tpc' = [tpc EXCEPT ![t] = "entry"]
  /\ tctx' = [tctx EXCEPT ![t] = args.ctx]
  /\ tprio' = [tprio EXCEPT ![t] = args.prio]
  /\ createRet' = [createRet EXCEPT ![k] = t]
  /\ recOwners' = [recOwners EXCEPT ![k] = {"spawner", "scheduler"}]
  /\ UNCHANGED <<errno, createErrno>>

\* the scheduler refuses: the null sentinel, errno set
task_create_fail(k, e) ==
  /\ errno' = e
  /\ createErrno' = [createErrno EXCEPT ![k] = e]
  /\ createRet' = [createRet EXCEPT ![k] = NullTask]
  /\ recOwners' = [recOwners EXCEPT ![k] = {"spawner"}]
  /\ UNCHANGED <<tstate, tpc, tctx, tprio>>

\* DropLocal with the record forgotten (mem::forget) instead of dropped
DropLocal_Forget(d) == d

\* `entrypoint` is a local of spawn_inner: it is dropped when the frame goes
DropLocal(d) == d + 1

\* spawn_inner, lines 25-39: the record in the frame, the name buffer, and
\* the call of task_create with the address of the record
SpawnInnerCall(b, conv) ==
  LET k == cur + 1
      args == CreateArgs(b, k) IN
  /\ MainRuns
  /\ cur < MaxSpawns
  /\ cur' = k
  /\ viaSpawn' = conv
  /\ builder' = b
  /\ IF HasNul(NameOrDefault(b.name))
     THEN \* CString::new(..).unwrap() panics, line 27: the record, made on
          \* line 25 and never handed out, is dropped as the panic unwinds
          /\ pc' = "panicked"
          /\ result' = [result EXCEPT ![k] = "panic"]
          /\ recFrame' = [recFrame EXCEPT ![k] = "dead"]
          /\ recDrops' = [recDrops EXCEPT ![k] = DropLocal(@)]
          /\ UNCHANGED <<createArgs, nameBuf, ncreate, errno, createRet,
                         createErrno, recOwners, tstate, tpc, tctx, tprio>>
     ELSE /\ pc' = "spawn_inner"
          /\ recFrame' = [recFrame EXCEPT ![k] = "live"]
          /\ nameBuf' = [nameBuf EXCEPT ![k] = "live"]
          /\ createArgs' = args
          /\ result' = [result EXCEPT ![k] = "pending"]
          /\ ncreate' = [ncreate EXCEPT ![k] = CreateAttempts(@)]
          /\ \/ task_create_ok(k, args)
             \/ \E e \in Errnos : task_create_fail(k, e)
          /\ UNCHANGED recDrops
  /\ UNCHANGED <<nset, resTask, recReads, recInvokes,
                 invokedOn, notif, readLive, handleVars, nops, joinTarget,
                 histVars, lastState, takeVars, sleepVars>>

\* Builder::spawn
BuilderSpawn ==
  /\ pc = "building"
  /\ SpawnInnerCall(builder, FALSE)
  /\ UNCHANGED lastSet

\* Builder::new() ... .spawn(f) in one go, the Builder's fields as given
\* by its setters; spawn(f) is the call with the fields of Builder::new()
BuilderInputs ==
  {[name |-> "bg", priority |-> "Low", stack_depth |-> "Low"]}

BuildAndSpawn(b) ==
  /\ pc = "idle"
  /\ SpawnInnerCall(b, FALSE)
  /\ lastSet' = b

\* spawn(f): Builder::new().spawn(f).expect(..)
Spawn ==
  /\ pc = "idle"
  /\ SpawnInnerCall(BuilderDefault, TRUE)
  /\ lastSet' = BuilderDefault

\* HandleTask wrapping the caller's own identifier (task_get_current())
HandleTask_Current(k) == MainTask

\* TaskHandle { task }: the identifier the handle wraps
HandleTask(k) == createRet[k]

\* the frame of spawn_inner goes: its local `entrypoint` with it
LeaveFrame(k) ==
  /\ recDrops' = [recDrops EXCEPT ![k] = DropLocal(@)]
  /\ recFrame' = [recFrame EXCEPT ![k] = "dead"]
  /\ recOwners' = [recOwners EXCEPT ![k] = @ \ {"spawner"}]
  /\ createArgs' = NoArgs
  /\ builder' = BuilderDefault
  /\ lastSet' = BuilderDefault
  /\ nset' = 0

\* what dropping `entrypoint` can do: the first destruction of the unit
\* of work is a plain drop; one after the trampoline has already consumed
\* it is a double free, which goes unnoticed or faults
DropOutcomes(d) == IF d = 0 THEN {"dropped"} ELSE {"dropped", "fault"}

\* spawn_inner, lines 41-43: free the name, wrap the identifier, and drop
\* the local record on the way out
SpawnInnerOk ==
  LET k == cur IN
  /\ pc = "spawn_inner" /\ MainRuns
  /\ ~IsErrState(createRet[k])
  /\ nameBuf' = [nameBuf EXCEPT ![k] = "freed"]
  /\ LeaveFrame(k)
  /\ \E o \in DropOutcomes(recDrops[k]) :
       IF o = "dropped"
       THEN /\ result' = [result EXCEPT ![k] = "Ok"]
            /\ resTask' = [resTask EXCEPT ![k] = HandleTask(k)]
            /\ hTask' = [hTask EXCEPT ![NewHandle] = HandleTask(k)]
            /\ hLive' = [hLive EXCEPT ![NewHandle] = TRUE]
            /\ pc' = "idle"
       ELSE /\ result' = [result EXCEPT ![k] = "fault"]
            /\ pc' = "faulted"
            /\ UNCHANGED <<resTask, hTask, hLive>>
  /\ UNCHANGED <<viaSpawn, cur, errno, createRet, createErrno, ncreate, recReads,
                 recInvokes, invokedOn, tstate, taskVars, tprio, notif, nops,
                 joinTarget, histVars, lastState, takeVars, sleepVars>>

\* ExpectPanics with the Err handed back to the caller of spawn
ExpectPanics_Never(conv) == FALSE

\* does an Err from Builder::spawn panic: spawn(f) calls .expect(..) on it,
\* a caller of Builder::spawn gets the Result
ExpectPanics(conv) == conv

\* bail_on!: task_create gave the sentinel; the errno decides between
\* Err(SpawnError) and a panic; the convenience spawn panics on Err too
SpawnInnerBail ==
  LET k == cur
      err == SpawnErrorFromErrno(errno) IN
  /\ pc = "spawn_inner" /\ MainRuns
  /\ IsErrState(createRet[k])
  /\ errno' = "none"
  /\ result' = [result EXCEPT ![k] = IF err = None THEN "panic" ELSE err]
  /\ LeaveFrame(k)
  /\ pc' = IF err = None \/ ExpectPanics(viaSpawn) THEN "panicked" ELSE "idle"
  /\ UNCHANGED <<viaSpawn, cur, createRet, createErrno, ncreate, resTask, recReads,
                 recInvokes, invokedOn, nameBuf, tstate, taskVars, tprio,
                 notif, handleVars, nops, joinTarget, histVars, lastState, takeVars, sleepVars>>

\* ------------------------------------------------------------- trampoline
\* TaskEntrypoint::cast_and_call_external, called by the scheduler as the
\* entry point of task t: read the record through the context pointer and
\* call the function.  The call is to F's own code whatever bytes were
\* read; a read after spawn_inner's frame is gone is of a dangling pointer
\* (readLive records it) and the unit of work then runs on dead captures.
\* CastAndCallExternal_ReadOnly is the trampoline without the call
\* (this.function)(): the record is read and the function is never invoked.
CastAndCallExternal_ReadOnly(t) ==
  LET k == tctx[t]
      live == recFrame[k] = "live" IN
  /\ tstate[t] = "Running" /\ tpc[t] = "entry"
  /\ recReads' = [recReads EXCEPT ![k] = @ + 1]
  /\ readLive' = [readLive EXCEPT ![t] = live]
  /\ recOwners' = [recOwners EXCEPT ![k] = (@ \ {"scheduler"}) \cup {"trampoline"}]
  /\ tpc' = [tpc EXCEPT ![t] = "unit"]
  /\ UNCHANGED <<pc, builderVars, callVars, recFrame, recDrops, recInvokes,
                 invokedOn, tstate, tctx, tprio, notif, handleVars, nops,
                 joinTarget, histVars, lastState, takeVars, sleepVars>>

CastAndCallExternal(t) ==
  LET k == tctx[t]
      live == recFrame[k] = "live" IN
  /\ tstate[t] = "Running" /\ tpc[t] = "entry"
  /\ recReads' = [recReads EXCEPT ![k] = @ + 1]
  /\ readLive' = [readLive EXCEPT ![t] = live]
  /\ recOwners' = [recOwners EXCEPT ![k] = (@ \ {"scheduler"}) \cup {"trampoline"}]
  /\ tpc' = [tpc EXCEPT ![t] = "unit"]
  /\ recInvokes' = [recInvokes EXCEPT ![k] = @ + 1]
  /\ invokedOn' = [invokedOn EXCEPT ![k] = @ \cup {t}]
  /\ UNCHANGED <<pc, builderVars, callVars, recFrame, recDrops, tstate, tctx,
                 tprio, notif, handleVars, nops, joinTarget, histVars, lastState, takeVars, sleepVars>>

\* UnitReturn with a unit of work that never returns: it spins in place
UnitReturn_Spins(t) ==
  /\ tstate[t] = "Running" /\ tpc[t] = "unit"
  /\ UNCHANGED vars

\* the unit of work returns: the FnOnce was consumed by the call, the
\* trampoline returns and the task parks until it is reaped
UnitReturn(t) ==
  LET k == tctx[t] IN
  /\ tstate[t] = "Running" /\ tpc[t] = "unit"
  /\ tpc' = [tpc EXCEPT ![t] = "returned"]
  /\ recDrops' = [recDrops EXCEPT ![k] = @ + 1]
  /\ recOwners' = [recOwners EXCEPT ![k] = @ \ {"trampoline"}]
  /\ tstate' = [tstate EXCEPT ![t] = "Blocked"]
  /\ UNCHANGED <<pc, builderVars, callVars, recFrame, recReads, recInvokes,
                 invokedOn, tctx, tprio, notif, readLive, handleVars, nops,
                 joinTarget, histVars, lastState, takeVars, sleepVars>>

\* the unit of work runs on captures the spawner has already destroyed
\* (spawn_inner returned and dropped `entrypoint`): a use after free, one
\* of whose outcomes is that the task faults instead of returning
UnitFault(t) ==
  LET k == tctx[t] IN
  /\ tstate[t] = "Running" /\ tpc[t] = "unit"
  /\ recFrame[k] = "dead"
  /\ tpc' = [tpc EXCEPT ![t] = "crashed"]
  /\ UNCHANGED <<pc, builderVars, callVars, recVars, tstate, tctx, tprio,
                 notif, readLive, handleVars, nops, joinTarget, histVars,
                 lastState, takeVars, sleepVars>>

\* -------------------------------------------------------------- scheduler
\* a context switch: a Ready task gets the core, the Running one is preempted
Schedule(t) ==
  /\ tstate[t] = "Ready"
  /\ tstate' = [u \in Tasks |->
                  IF u = t THEN "Running"
                  ELSE IF tstate[u] = "Running" THEN "Ready" ELSE tstate[u]]
  /\ UNCHANGED <<pc, builderVars, callVars, recVars, taskVars, tprio, notif,
                 handleVars, nops, joinTarget, histVars, lastState, takeVars, sleepVars>>


\* join's wait ends: the target's unit of work has returned; the scheduler
\* reclaims the target and makes the joiner ready, whose join() then returns
JoinWake ==
  /\ pc = "joining"
  /\ tstate[MainTask] = "Blocked"
  /\ joinTarget \in Spawned
  /\ tpc[joinTarget] = "returned"
  /\ tstate' = [tstate EXCEPT ![joinTarget] = "Deleted", ![MainTask] = "Ready"]
  /\ pc' = "idle"
  /\ joinDone' = joinDone \cup {joinTarget}
  /\ joinTarget' = NullTask
  /\ UNCHANGED <<builderVars, callVars, recVars, taskVars, tprio, notif,
                 handleVars, nops, consumedH, consumedT, opViaConsumed,
                 opOnConsumed, abortedEarly, stopOp, paused, lastState, takeVars,
                 sleepVars>>

\* ------------------------------------------------------------- TaskHandle
\* #[derive(Clone)] and current(): a new handle value
MakeHandle(t) ==
  /\ pc = "idle" /\ MainRuns
  /\ Cardinality(FreeHandles) > MaxSpawns - cur
  /\ hTask' = [hTask EXCEPT ![NewHandle] = t]
  /\ hLive' = [hLive EXCEPT ![NewHandle] = TRUE]
  /\ UNCHANGED <<pc, builderVars, callVars, recVars, tstate, taskVars, tprio,
                 notif, nops, joinTarget, histVars, lastState, takeVars, sleepVars>>

\* TaskHandle::clone
Clone(h) ==
  /\ hLive[h]
  /\ MakeHandle(hTask[h])

\* current(): TaskHandle { task: task_get_current() }
Current ==
  /\ MakeHandle(MainTask)
  /\ hLive'[NewHandle]

\* current() called by the unit of work of task t: task_get_current() gives
\* the identifier of the task that runs
CurrentIn(t) ==
  /\ tstate[t] = "Running" /\ tpc[t] = "unit"
  /\ Cardinality(FreeHandles) >
       MaxSpawns - cur + (IF pc = "spawn_inner" THEN 1 ELSE 0)
  /\ hTask' = [hTask EXCEPT ![NewHandle] = t]
  /\ hLive' = [hLive EXCEPT ![NewHandle] = TRUE]
  /\ UNCHANGED <<pc, builderVars, callVars, recVars, tstate, taskVars, tprio,
                 notif, nops, joinTarget, histVars, lastState, takeVars,
                 sleepVars>>

\* the TaskHandle value held in slot h
Handle(h) == [task |-> hTask[h]]

\* HandleEq with no two handles ever equal
HandleEq_Never(a, b) == FALSE

\* #[derive(PartialEq, Eq)] on TaskHandle: the fields are compared
HandleEq(a, b) == a.task = b.task

\* a method call through handle h by the main task; h is a value the
\* program still holds
Call(h) ==
  /\ pc = "idle" /\ MainRuns
  /\ hLive[h]
  /\ nops < MaxOps
  /\ nops' = nops + 1
  /\ opViaConsumed' = (opViaConsumed \/ h \in consumedH)
  /\ opOnConsumed' = (opOnConsumed \/ hTask[h] \in consumedT)

\* a method taking &self: the handle stays with the caller
Borrow(h) ==
  /\ Call(h)
  /\ UNCHANGED <<handleVars, consumedH, consumedT>>

\* Consume with the method taking &self: the caller keeps the handle
Consume_Borrowing(h) ==
  /\ Call(h)
  /\ consumedH' = consumedH \cup {h}
  /\ consumedT' = consumedT \cup {hTask[h]}
  /\ UNCHANGED <<hTask, hLive>>

\* a method taking self: the handle is moved into the call
Consume(h) ==
  /\ Call(h)
  /\ hLive' = [hLive EXCEPT ![h] = FALSE]
  /\ consumedH' = consumedH \cup {h}
  /\ consumedT' = consumedT \cup {hTask[h]}
  /\ UNCHANGED hTask

\* a task that can run: it has the core or waits for it
Runnable == {"Running", "Ready"}

\* the record of a handle operation through h after which the calling task
\* cannot run
Stopped(op, h) ==
  IF tstate'[MainTask] \in Runnable THEN stopOp
  ELSE [op |-> op, self |-> hTask[h] = MainTask]

\* pause suspending the calling task instead of the handle's task
Pause_Current(h) ==
  /\ Borrow(h)
  /\ tstate' = task_suspend(tstate, MainTask)
  /\ UNCHANGED <<pc, builderVars, callVars, recVars, taskVars, tprio, notif,
                 joinTarget, joinDone, abortedEarly, lastState, takeVars, sleepVars>>
  /\ stopOp' = Stopped("pause", h)
  /\ paused' = paused \cup {hTask[h]}

\* TaskHandle::pause
Pause(h) ==
  /\ Borrow(h)
  /\ tstate' = task_suspend(tstate, hTask[h])
  /\ UNCHANGED <<pc, builderVars, callVars, recVars, taskVars, tprio, notif,
                 joinTarget, joinDone, abortedEarly, lastState, takeVars, sleepVars>>
  /\ stopOp' = Stopped("pause", h)
  /\ paused' = paused \cup {hTask[h]}

\* unpause making its target ready whatever state it is in
Unpause_Revives(h) ==
  /\ Borrow(h)
  /\ tstate' = [tstate EXCEPT ![hTask[h]] = "Ready"]
  /\ UNCHANGED <<pc, builderVars, callVars, recVars, taskVars, tprio, notif,
                 joinTarget, joinDone, abortedEarly, lastState, takeVars, sleepVars>>
  /\ stopOp' = Stopped("unpause", h)
  /\ paused' = paused \ {hTask[h]}

\* TaskHandle::unpause
Unpause(h) ==
  /\ Borrow(h)
  /\ tstate' = task_resume(tstate, hTask[h])
  /\ UNCHANGED <<pc, builderVars, callVars, recVars, taskVars, tprio, notif,
                 joinTarget, joinDone, abortedEarly, lastState, takeVars, sleepVars>>
  /\ stopOp' = Stopped("unpause", h)
  /\ paused' = paused \ {hTask[h]}

\* a u32 a caller passes as it is: impl Into<u32> takes any u32
RawWeights == {3}

\* the weights a caller can pass: impl Into<u32> takes a TaskPriority or
\* any u32
WeightInputs == {PriorityWeight("High")} \cup RawWeights

\* set_priority acting on the calling task instead of the handle's task
SetPriority_Current(h, w) ==
  /\ Borrow(h)
  /\ tprio' = task_set_priority(tprio, MainTask, w)
  /\ UNCHANGED <<pc, builderVars, callVars, recVars, tstate, taskVars, notif,
                 joinTarget, joinDone, abortedEarly, lastState, takeVars, sleepVars>>
  /\ stopOp' = Stopped("set_priority", h)
  /\ UNCHANGED paused

\* TaskHandle::set_priority
SetPriority(h, w) ==
  /\ Borrow(h)
  /\ tprio' = task_set_priority(tprio, hTask[h], w)
  /\ UNCHANGED <<pc, builderVars, callVars, recVars, tstate, taskVars, notif,
                 joinTarget, joinDone, abortedEarly, lastState, takeVars, sleepVars>>
  /\ stopOp' = Stopped("set_priority", h)
  /\ UNCHANGED paused

\* TaskHandle::state
State(h) ==
  /\ Borrow(h)
  /\ lastState' = TaskStateFrom(task_get_state(tstate, hTask[h]))
  /\ UNCHANGED <<pc, builderVars, callVars, recVars, tstate, taskVars, tprio,
                 notif, joinTarget, joinDone, abortedEarly, takeVars,
                 sleepVars>>
  /\ stopOp' = Stopped("state", h)
  /\ UNCHANGED paused

\* TaskHandle::notify
Notify(h) ==
  /\ Borrow(h)
  /\ notif[hTask[h]] < MaxNotify
  /\ notif' = task_notify(notif, hTask[h])
  /\ tstate' = notify_wake(tstate, hTask[h])
  /\ take' = [t \in Spawned |->
                IF t = hTask[h] /\ take[t].st = "waiting"
                THEN [take[t] EXCEPT !.notified = TRUE] ELSE take[t]]
  /\ UNCHANGED <<pc, builderVars, callVars, recVars, taskVars, tprio,
                 joinTarget, joinDone, abortedEarly, lastState, ntakes,
                 sleepVars>>
  /\ stopOp' = Stopped("notify", h)
  /\ UNCHANGED paused

\* join calling task_delete instead of task_join: it returns at once
Join_Deletes(h) ==
  /\ Consume(h)
  /\ tstate' = task_delete(tstate, hTask[h])
  /\ joinDone' = IF hTask[h] \in Spawned
                 THEN joinDone \cup {hTask[h]} ELSE joinDone
  /\ UNCHANGED <<pc, builderVars, callVars, recVars, taskVars, tprio, notif,
                 joinTarget, abortedEarly, stopOp, paused, lastState, takeVars,
                 sleepVars>>

\* TaskHandle::join: task_join(self.task) blocks the caller
Join(h) ==
  /\ Consume(h)
  /\ pc' = "joining"
  /\ joinTarget' = hTask[h]
  /\ tstate' = [tstate EXCEPT ![MainTask] = "Blocked"]
  /\ UNCHANGED <<builderVars, callVars, recVars, taskVars, tprio, notif,
                 joinDone, abortedEarly, stopOp, paused, lastState, takeVars,
                 sleepVars>>

\* abort calling task_suspend instead of task_delete
Abort_Suspends(h) ==
  /\ Consume(h)
  /\ tstate' = task_suspend(tstate, hTask[h])
  /\ abortedEarly' = IF hTask[h] \in Spawned /\ tpc[hTask[h]] = "entry"
                     THEN abortedEarly \cup {hTask[h]} ELSE abortedEarly
  /\ UNCHANGED <<pc, builderVars, callVars, recVars, taskVars, tprio, notif,
                 joinTarget, joinDone, lastState, takeVars, sleepVars>>
  /\ stopOp' = Stopped("abort", h)
  /\ UNCHANGED paused

\* abort waiting for the unit of work to return as join does
Abort_Waits(h) == Join(h)

\* TaskHandle::abort: task_delete(self.task)
Abort(h) ==
  /\ Consume(h)
  /\ tstate' = task_delete(tstate, hTask[h])
  /\ abortedEarly' = IF hTask[h] \in Spawned /\ tpc[hTask[h]] = "entry"
                     THEN abortedEarly \cup {hTask[h]} ELSE abortedEarly
  /\ UNCHANGED <<pc, builderVars, callVars, recVars, taskVars, tprio, notif,
                 joinTarget, joinDone, lastState, takeVars, sleepVars>>
  /\ stopOp' = Stopped("abort", h)
  /\ UNCHANGED paused

\* ------------------------------------------------------- get_notification
\* ClearOnExit with the flag given as true
ClearOnExit_True == TRUE

\* the first argument of task_notify_take: clear_on_exit
ClearOnExit == FALSE

\* TakeBlocks with a timeout of 0 given: the call never waits
TakeBlocks_Zero == FALSE

\* the second argument of task_notify_take, TIMEOUT_MAX: wait without limit
TakeBlocks == TRUE

\* task_notify_take returns to task t with the counter's value
TakeResult(t, waited) ==
  [st |-> "returned",
   pending |-> IF waited THEN 0 ELSE notif[t],
   notified |-> IF waited THEN take[t].notified ELSE FALSE,
   waited |-> waited,
   ret |-> notif[t],
   left |-> notif'[t]]

\* get_notification(), called by the unit of work of task t:
\* task_notify_take(false, TIMEOUT_MAX) returns at once when a value is
\* pending and blocks the task otherwise
GetNotification(t) ==
  /\ tstate[t] = "Running" /\ tpc[t] = "unit"
  /\ ntakes < MaxTakes
  /\ ntakes' = ntakes + 1
  /\ IF notif[t] > 0 \/ ~TakeBlocks
     THEN /\ notif' = [notif EXCEPT ![t] = notify_take_leaves(ClearOnExit, @)]
          /\ take' = [take EXCEPT ![t] = TakeResult(t, FALSE)]
          /\ UNCHANGED <<tstate, tpc>>
     ELSE /\ take' = [take EXCEPT ![t] = [NoTake EXCEPT !.st = "waiting",
                                                       !.waited = TRUE]]
          /\ tpc' = [tpc EXCEPT ![t] = "taking"]
          /\ tstate' = [tstate EXCEPT ![t] = "Blocked"]
          /\ UNCHANGED notif
  /\ UNCHANGED <<pc, builderVars, callVars, recVars, tctx, readLive, tprio,
                 handleVars, nops, joinTarget, histVars, lastState, sleepVars>>

\* the blocked get_notification() of task t returns: a notification came
\* and the task has the core again
TakeReturn(t) ==
  /\ tstate[t] = "Running" /\ tpc[t] = "taking"
  /\ notif[t] > 0
  /\ notif' = [notif EXCEPT ![t] = notify_take_leaves(ClearOnExit, @)]
  /\ take' = [take EXCEPT ![t] = TakeResult(t, TRUE)]
  /\ tpc' = [tpc EXCEPT ![t] = "unit"]
  /\ UNCHANGED <<pc, builderVars, callVars, recVars, tstate, tctx, readLive,
                 tprio, handleVars, nops, joinTarget, histVars, lastState,
                 ntakes, sleepVars>>

\* ------------------------------------------------------------------ sleep
NanosPerMilli == 1000000
MillisPerSec == 1000

\* 2^32 milliseconds are 4294967 seconds and 296 milliseconds
U32Secs == 4294967
U32Millis == 296

\* the Durations given to sleep: zero, below and at one millisecond, between
\* two milliseconds, and around 2^32 milliseconds
DurSecs == {0, 1, 2, U32Secs, U32Secs + 1}
DurNanos == {0, 1, 999999, 1000000, 1500000, 295999999, 296000000, 999999999}
Durations == [secs : DurSecs, nanos : DurNanos]

\* Duration::as_millis(): the whole milliseconds of d, the rest is dropped
as_millis(d) == [secs |-> d.secs, millis |-> d.nanos \div NanosPerMilli]

\* `as u32` on the u128 count of milliseconds: the count modulo 2^32
RECURSIVE as_u32(_)
as_u32(m) ==
  IF m.secs > U32Secs \/ (m.secs = U32Secs /\ m.millis >= U32Millis)
  THEN as_u32(IF m.millis >= U32Millis
              THEN [secs |-> m.secs - U32Secs, millis |-> m.millis - U32Millis]
              ELSE [secs |-> m.secs - U32Secs - 1,
                    millis |-> m.millis + MillisPerSec - U32Millis])
  ELSE m

\* the delay of ms milliseconds lasts at least as long as the Duration d
DelayCovers(ms, d) ==
  \/ ms.secs > d.secs
  \/ ms.secs = d.secs /\ ms.millis * NanosPerMilli >= d.nanos

\* sleep(duration), called by the main task: delay(duration.as_millis() as u32)
Sleep(d) ==
  /\ pc = "idle" /\ MainRuns
  /\ nsleeps < MaxSleeps
  /\ nsleeps' = nsleeps + 1
  /\ sleepDur' = d
  /\ delayMs' = as_u32(as_millis(d))
  /\ pc' = "sleeping"
  /\ tstate' = [tstate EXCEPT ![MainTask] = "Blocked"]
  /\ UNCHANGED <<builderVars, callVars, recVars, taskVars, tprio, notif,
                 handleVars, nops, joinTarget, histVars, lastState, takeVars>>

\* the delay has run out: the scheduler makes the sleeper ready, and sleep
\* returns once it is scheduled
DelayExpire ==
  /\ pc = "sleeping"
  /\ tstate[MainTask] = "Blocked"
  /\ pc' = "idle"
  /\ tstate' = [tstate EXCEPT ![MainTask] = "Ready"]
  /\ UNCHANGED <<builderVars, callVars, recVars, taskVars, tprio, notif,
                 handleVars, nops, joinTarget, histVars, lastState, takeVars,
                 sleepVars>>

\* ------------------------------------------------------------------- Next
\* what the tasks and the scheduler do on their own
TaskStep ==
  \/ \E t \in Spawned : CastAndCallExternal(t)
  \/ \E t \in Spawned : UnitReturn(t)
  \/ \E t \in Spawned : UnitFault(t)
  \/ \E t \in Tasks : Schedule(t)

SpawnStep ==
  \/ Spawn
  \/ SpawnInnerOk
  \/ SpawnInnerBail

HandleStep ==
  \/ \E h \in Handles : Clone(h)
  \/ Current
  \/ \E h \in Handles : Pause(h)
  \/ \E h \in Handles : Unpause(h)
  \/ \E h \in Handles, w \in RawWeights : SetPriority(h, w)
  \/ \E h \in Handles : State(h)
  \/ \E h \in Handles : Notify(h)
  \/ \E h \in Handles : Join(h)
  \/ \E h \in Handles : Abort(h)
  \/ JoinWake

\* the life of tasks: spawning with the Builder's fields drawn from
\* BuilderInputs, the tasks, and the methods of TaskHandle
Next ==
  \/ \E b \in BuilderInputs : BuildAndSpawn(b)
  \/ SpawnStep
  \/ TaskStep
  \/ HandleStep

Spec == Init /\ [][Next]_vars

\* the Builder: every sequence of setter calls, then spawn
NextBuilder ==
  \/ BuilderNew
  \/ \E n \in Names : BuilderName(n)
  \/ \E p \in Priorities : BuilderPriority(p)
  \/ \E s \in StackDepths : BuilderStackDepth(s)
  \/ BuilderSpawn
  \/ SpawnStep
  \/ TaskStep

SpecBuilder == Init /\ [][NextBuilder]_vars

\* the unit of work calling into the API: a spawned task takes its
\* notifications while the main task notifies it
NextTaskSide ==
  \/ BuildAndSpawn(BuilderDefault)
  \/ SpawnInnerOk
  \/ SpawnInnerBail
  \/ TaskStep
  \/ \E h \in Handles : Notify(h)
  \/ \E t \in Spawned : GetNotification(t)
  \/ \E t \in Spawned : TakeReturn(t)
  \/ \E t \in Spawned : CurrentIn(t)
  \/ \E h \in Handles : Clone(h)

SpecTask == Init /\ [][NextTaskSide]_vars

\* the main task sleeping
NextSleep ==
  \/ \E d \in Durations : Sleep(d)
  \/ DelayExpire
  \/ \E t \in Tasks : Schedule(t)

SpecSleep == Init /\ [][NextSleep]_vars

\* spawned tasks observed by the main task: state() on tasks it has paused,
\* joined or aborted
NextObserve ==
  \/ BuildAndSpawn(BuilderDefault)
  \/ SpawnInnerOk
  \/ SpawnInnerBail
  \/ TaskStep
  \/ \E h \in Handles : Clone(h)
  \/ \E h \in Handles : Pause(h)
  \/ \E h \in Handles : State(h)
  \/ \E h \in Handles : Join(h)
  \/ \E h \in Handles : Abort(h)
  \/ JoinWake

SpecObserve == Init /\ [][NextObserve]_vars

\* every TaskHandle method on spawned tasks that run, wait for
\* notifications and return
NextOps ==
  \/ BuildAndSpawn(BuilderDefault)
  \/ SpawnInnerOk
  \/ SpawnInnerBail
  \/ TaskStep
  \/ \E t \in Spawned : GetNotification(t)
  \/ \E t \in Spawned : TakeReturn(t)
  \/ \E h \in Handles : Clone(h)
  \/ \E h \in Handles : Pause(h)
  \/ \E h \in Handles : Unpause(h)
  \/ \E h \in Handles, w \in WeightInputs : SetPriority(h, w)
  \/ \E h \in Handles : State(h)
  \/ \E h \in Handles : Notify(h)
  \/ \E h \in Handles : Join(h)
  \/ \E h \in Handles : Abort(h)
  \/ JoinWake

SpecOps == Init /\ [][NextOps]_vars

\* the main task joining tasks, its own included, under a fair scheduler
NextJoin ==
  \/ BuildAndSpawn(BuilderDefault)
  \/ SpawnInnerOk
  \/ SpawnInnerBail
  \/ TaskStep
  \/ \E h \in Handles : Clone(h)
  \/ Current
  \/ \E h \in Handles : Pause(h)
  \/ \E h \in Handles : Unpause(h)
  \/ \E h \in Handles : Join(h)
  \/ JoinWake

\* the scheduler is fair, the units of work terminate, and a join whose
\* target has returned is woken
FairnessJoin ==
  /\ \A t \in Tasks : WF_vars(Schedule(t))
  /\ \A t \in Spawned : SF_vars(CastAndCallExternal(t))
  /\ \A t \in Spawned : SF_vars(UnitReturn(t))
  /\ WF_vars(JoinWake)

SpecJoin == Init /\ [][NextJoin]_vars /\ FairnessJoin

\* spawned tasks under a fair scheduler, the main task pausing, resuming
\* and aborting them
NextFair ==
  \/ BuildAndSpawn(BuilderDefault)
  \/ SpawnInnerOk
  \/ SpawnInnerBail
  \/ TaskStep
  \/ \E h \in Handles : Clone(h)
  \/ \E h \in Handles : Pause(h)
  \/ \E h \in Handles : Unpause(h)
  \/ \E h \in Handles : Abort(h)

\* the scheduler is fair: a task that stays ready gets the core, and a task
\* that gets the core again and again takes its next step
Fairness ==
  \A t \in Spawned :
    /\ WF_vars(Schedule(t))
    /\ SF_vars(CastAndCallExternal(t))

SpecFair == Init /\ [][NextFair]_vars /\ Fairness

TypeOK ==
  /\ pc \in {"idle", "building", "spawn_inner", "joining", "panicked", "faulted"}
  /\ cur \in 0..MaxSpawns
  /\ \A k \in Recs : recDrops[k] \in 0..2 /\ recReads[k] \in 0..1
  /\ \A t \in Tasks : tstate[t] \in {"none", "Ready", "Running", "Blocked", "Suspended", "Deleted"}
  /\ Cardinality({t \in Tasks : tstate[t] = "Running"}) <= 1


\* ================================================================ claims
Ended(k) == result[k] \notin {"none", "pending"}
Failed(k) == result[k] \notin {"none", "pending", "Ok", "fault"}

\* C1: for every successful spawn the unit of work is invoked at most once,
\* on the task the returned TaskHandle identifies (the one task_create made
\* for this call), and never on the spawning task.
C1_InvokedOnceOnHandleTask ==
  \A k \in Recs :
    /\ recInvokes[k] <= 1
    /\ MainTask \notin invokedOn[k]
    /\ \A t \in invokedOn[k] : t \in Spawned /\ t = createRet[k] /\ tctx[t] = k
    /\ result[k] = "Ok" =>
         /\ resTask[k] = createRet[k]
         /\ invokedOn[k] \subseteq {resTask[k]}

\* C1 witness: a spawn succeeded and its unit of work ran on the new task
C1_Witness ==
  \E k \in Recs :
    result[k] = "Ok" /\ recInvokes[k] = 1 /\ invokedOn[k] = {resTask[k]}

\* C2: whenever the trampoline reads the record through the context
\* pointer, the storage the pointer refers to is still live.
C2_StorageLiveAtRead ==
  \A t \in Spawned : tpc[t] \notin {"none", "entry"} => readLive[t]

\* C3: a closure record has at most one live owner at any time, and is
\* read, destroyed and invoked at most once over the whole run.
C3_SingleOwnerSingleUse ==
  \A k \in Recs :
    /\ Cardinality(recOwners[k]) <= 1
    /\ recReads[k] <= 1
    /\ recDrops[k] <= 1
    /\ recInvokes[k] <= 1

\* C4: when task_create returns the null sentinel, the spawn call gives no
\* TaskHandle, no task exists for it, its unit of work is never invoked,
\* and once the call has ended the record was reclaimed exactly once.
C4_FailureReclaimsOnce ==
  \A k \in Recs :
    (result[k] # "none" /\ createRet[k] = NullTask) =>
      /\ result[k] # "Ok"
      /\ resTask[k] = NullTask
      /\ recInvokes[k] = 0 /\ recReads[k] = 0
      /\ \A t \in Spawned : tstate[t] # "none" => tctx[t] # k
      /\ \A h \in Handles : hTask[h] \in Spawned => tstate[hTask[h]] # "none"
      /\ Ended(k) => /\ recDrops[k] = 1
                     /\ recOwners[k] = {}
                     /\ recFrame[k] = "dead"

\* C4 witness: a spawn call has ended in failure and the tasks ran on
C4_Witness ==
  \E k \in Recs : Failed(k) /\ createRet[k] = NullTask /\ recDrops[k] = 1

\* C5: Builder::spawn returns an error only when task_create returned null
\* with errno ENOMEM; the error is TCBNotCreated and nothing else; a
\* non-null identifier never gives an error.
C5_ErrOnlyOnEnomem ==
  \A k \in Recs :
    /\ (Failed(k) /\ result[k] # "panic") =>
         /\ result[k] = "TCBNotCreated"
         /\ createRet[k] = NullTask
         /\ createErrno[k] = "ENOMEM"
    /\ createRet[k] # NullTask => result[k] \in {"pending", "Ok", "fault"}

\* C5 witness: a spawn call returned Err(TCBNotCreated)
C5_Witness ==
  \E k \in Recs : result[k] = "TCBNotCreated" /\ createErrno[k] = "ENOMEM"

\* the weights and sizes the documentation gives, as a table
DocWeight(p) == IF p = "High" THEN 16 ELSE IF p = "Low" THEN 1 ELSE 8
DocStack(s) == IF s = "Low" THEN 512 ELSE 8192

\* C6: the weight and the stack size handed to task_create are High -> 16,
\* Default -> 8, Low -> 1 and Default -> 8192, Low -> 512; an unset
\* priority gives 8, an unset stack depth 8192, as does the convenience
\* spawn.
C6_WeightsAndSizes ==
  createArgs.called =>
    /\ builder.priority = "High" => createArgs.prio = 16
    /\ builder.priority = "Default" => createArgs.prio = 8
    /\ builder.priority = "Low" => createArgs.prio = 1
    /\ builder.priority = None => createArgs.prio = 8
    /\ builder.stack_depth = "Default" => createArgs.stack = 8192
    /\ builder.stack_depth = "Low" => createArgs.stack = 512
    /\ builder.stack_depth = None => createArgs.stack = 8192
    /\ viaSpawn => createArgs.prio = 8 /\ createArgs.stack = 8192
    /\ createRet[cur] # NullTask => tprio[createRet[cur]] = createArgs.prio

\* C6 witness: task_create was called for a Builder set to Low and Low
C6_Witness ==
  /\ createArgs.called
  /\ builder.priority = "Low" /\ builder.stack_depth = "Low"
  /\ createArgs.prio = 1 /\ createArgs.stack = 512

\* C7: after any sequence of setter calls the Builder holds, per field,
\* the argument of the last call of that field's setter (unset if there
\* was none), and task_create receives those values, a field never set
\* giving "<unnamed>", Default and Default.
C7_LastSetterWins ==
  /\ builder = lastSet
  /\ createArgs.called =>
       /\ createArgs.name = IF lastSet.name = None THEN "<unnamed>" ELSE lastSet.name
       /\ createArgs.prio = DocWeight(lastSet.priority)
       /\ createArgs.stack = DocStack(lastSet.stack_depth)

\* C7 witness: three setter calls, one field set twice or more and the
\* stack depth never set, then the create call
C7_Witness ==
  /\ createArgs.called
  /\ nset = 3
  /\ lastSet.name = "bg" /\ lastSet.priority = "Low"
  /\ lastSet.stack_depth = None
  /\ createArgs.name = "bg" /\ createArgs.prio = 1 /\ createArgs.stack = 8192

\* C8: a join() call returns only after the target's unit of work has
\* returned.
C8_JoinAfterReturn ==
  \A t \in joinDone : t \in Spawned /\ tpc[t] = "returned"

\* C8 witness: a join() call has returned and the main task runs again
C8_Witness ==
  joinDone # {} /\ pc = "idle" /\ MainRuns

\* C9 as claimed: once join() or abort() was called on a task, no method
\* is ever called against that task again.
C9_NoCallOnJoinedTask ==
  ~opOnConsumed

\* C9 amended: no method is called through the handle value that was
\* moved into join() or abort().
C9_NoCallViaConsumedHandle ==
  ~opViaConsumed

\* C9 witness: a method was called on a task after join/abort, through
\* another handle than the consumed one
C9_Witness ==
  opOnConsumed /\ ~opViaConsumed /\ consumedH # {}

\* C10: a task aborted before its unit of work started never has its unit
\* of work invoked.
C10_AbortedEarlyNeverRuns ==
  \A t \in abortedEarly :
    /\ tpc[t] = "entry"
    /\ recInvokes[tctx[t]] = 0 /\ recReads[tctx[t]] = 0

\* C10 witness: a task was aborted before it started, and the main task
\* went on to make another call
C10_Witness ==
  \E t \in abortedEarly : tstate[t] = "Deleted" /\ nops >= 2


\* C11: get_notification() called with no value pending does not return
\* until a notify() is delivered to the task; called with a value pending
\* it returns that value without blocking.
C11_TakeBlocksUntilNotified ==
  \A t \in Spawned :
    LET k == take[t] IN
    /\ k.st = "waiting" => tpc[t] = "taking" /\ k.pending = 0
    /\ (k.st = "waiting" /\ ~k.notified) => notif[t] = 0
    /\ (k.st = "returned" /\ k.pending = 0) => k.waited /\ k.notified
    /\ (k.st = "returned" /\ k.pending > 0) => ~k.waited /\ k.ret = k.pending
    /\ k.st = "returned" => k.ret > 0

\* C11 witness: a call found nothing pending, blocked, was notified and
\* returned the value
C11_Witness ==
  \E t \in Spawned :
    take[t].st = "returned" /\ take[t].waited /\ take[t].notified /\ take[t].ret = 1

\* C12 as claimed: right after get_notification() returns, the task's
\* notification slot holds no pending value, however many notify() calls
\* came before the read.
C12_SlotEmptyAfterTake ==
  \A t \in Spawned : take[t].st = "returned" => take[t].left = 0

\* C12 amended: get_notification() takes one notification: it leaves one
\* less than the value it returns, so the slot is empty after it exactly
\* when one notify() was pending.
C12_TakeLeavesOneLess ==
  \A t \in Spawned :
    take[t].st = "returned" =>
      /\ take[t].ret >= 1
      /\ take[t].left = take[t].ret - 1

\* C12 witness: two notify() calls, then a get_notification() that returns
\* 2 and leaves 1 pending
C12_Witness ==
  \E t \in Spawned :
    take[t].st = "returned" /\ take[t].ret = 2 /\ take[t].left = 1


\* C13: for every Duration given to sleep, the delay asked of the scheduler
\* is at least that Duration: nothing is lost to the truncation to whole
\* milliseconds or to the reduction modulo 2^32.
C13_DelayAtLeastDuration ==
  nsleeps > 0 => DelayCovers(delayMs, sleepDur)


\* C14 as claimed: pause, unpause, set_priority, state, notify and abort
\* never stop their caller: on any handle, spawned, cloned or from
\* current(), the calling task can still run after the call.
C14_CallerNeverStopped ==
  /\ stopOp = NoStop
  /\ pc \notin {"joining", "sleeping"} => tstate[MainTask] \in Runnable

\* C14 amended: the six operations leave their caller able to run when the
\* handle designates another task; on the caller's own handle, from
\* current(), only pause and abort stop it.
C14_OnlySelfPauseAbortStop ==
  /\ stopOp.op # "none" => stopOp.self /\ stopOp.op \in {"pause", "abort"}
  /\ (pc \notin {"joining", "sleeping"} /\ tstate[MainTask] \notin Runnable)
       => stopOp.op # "none"

\* C14 witness: the main task has paused another task and runs on
C14_Witness ==
  \E t \in Spawned :
    /\ tstate[t] = "Suspended"
    /\ tstate[MainTask] = "Running"
    /\ pc = "idle" /\ nops > 0 /\ stopOp = NoStop


\* the variant the scheduler's state code v stands for: codes 0 to 5 are
\* RUNNING, READY, BLOCKED, SUSPENDED, DELETED and INVALID
StateOfCode(v) ==
  CASE v = 0 -> "Running"
    [] v = 1 -> "Ready"
    [] v = 2 -> "Blocked"
    [] v = 3 -> "Suspended"
    [] v = 4 -> "Deleted"
    [] OTHER -> "Invalid"

\* u32 values given to the conversion: the six codes and values beyond them
CodeSamples == 0..9

\* C15: the conversion from the scheduler's numeric state to TaskState is
\* total and exact: each of the six codes gives the variant of its name,
\* every other value gives Invalid, and state() returns the conversion of
\* what the scheduler reports for the handle's task at the call.
C15_StateConversionExact ==
  [][/\ \A v \in CodeSamples : TaskStateFrom(v) = StateOfCode(v)
     /\ \A h \in Handles :
          State(h) =>
            /\ lastState' = StateOfCode(task_get_state(tstate, hTask[h]))
            /\ tstate[hTask[h]] \in {"Running", "Ready", "Blocked",
                                     "Suspended", "Deleted"}
                 => lastState' = tstate[hTask[h]]]_vars

\* C15 witness: state() has returned Deleted for a deleted task
C15_Witness ==
  /\ lastState = "Deleted"
  /\ \E h \in Handles : hTask[h] \in Spawned /\ tstate[hTask[h]] = "Deleted"


\* C16: when task_create fails under the convenience spawn(f), the call
\* ends in a panic and returns no TaskHandle, and when it panics the record
\* has been reclaimed, the unit of work was not invoked and no task exists.
C16_SpawnFailurePanicsClean ==
  (viaSpawn /\ cur \in Recs /\ pc # "spawn_inner"
     /\ createRet[cur] = NullTask) =>
    /\ pc = "panicked"
    /\ result[cur] \in {"panic", "TCBNotCreated"}
    /\ resTask[cur] = NullTask
    /\ \A h \in Handles :
         hLive[h] /\ hTask[h] \in Spawned => tstate[hTask[h]] # "none"
    /\ recDrops[cur] = 1 /\ recFrame[cur] = "dead" /\ recOwners[cur] = {}
    /\ recReads[cur] = 0 /\ recInvokes[cur] = 0
    /\ \A t \in Spawned : tstate[t] # "none" => tctx[t] # cur

\* C16 witness: spawn(f) has panicked on an ENOMEM failure of task_create
C16_Witness ==
  /\ viaSpawn /\ pc = "panicked"
  /\ cur \in Recs /\ createErrno[cur] = "ENOMEM"
  /\ result[cur] = "TCBNotCreated" /\ recDrops[cur] = 1

\* C17: once task_create has accepted the context, the spawner and the
\* spawned task never both access the unit of work's record: the spawner
\* does not destroy it while or after the task reads, invokes or destroys
\* it, and the task does not read it after the spawner destroyed it.
C17_NoSharedAccess ==
  \A k \in Recs :
    createRet[k] # NullTask =>
      /\ ~(recFrame[k] = "dead" /\ recReads[k] > 0)
      /\ recDrops[k] <= 1


Invoked(t) == tctx[t] \in Recs /\ recInvokes[tctx[t]] >= 1

\* C19: under a fair scheduler, the unit of work of every successfully
\* spawned task is eventually invoked unless the task is aborted or left
\* paused: a task that can run and was not invoked yet is later invoked,
\* deleted or suspended.
C19_EventuallyInvoked ==
  \A t \in Spawned :
    (tstate[t] \in Runnable /\ tpc[t] = "entry")
      ~> (Invoked(t) \/ tstate[t] \in {"Deleted", "Suspended"})

\* C19 witness: a task that was paused and resumed has had its unit of work
\* invoked and runs it
C19_Witness ==
  \E t \in Spawned :
    /\ Invoked(t) /\ tpc[t] = "unit" /\ tstate[t] = "Running"
    /\ nops = 2 /\ recInvokes[tctx[t]] = 1


\* C20 as claimed: whenever state() returns Deleted for a spawned task,
\* that task's unit of work was invoked earlier in the run.
C20_DeletedOnlyAfterInvoked ==
  [][\A h \in Handles :
       (State(h) /\ hTask[h] \in Spawned /\ lastState' = "Deleted")
         => Invoked(hTask[h])]_vars

\* C20 amended: a unit of work is invoked only after task_create accepted
\* its context, and whenever state() returns Deleted for a spawned task
\* that was not aborted before it first ran, its unit of work was invoked
\* earlier in the run.
C20_DeletedAfterInvokedUnlessAbortedEarly ==
  [][/\ \A k \in Recs :
          recInvokes'[k] > recInvokes[k] => createRet[k] # NullTask
     /\ \A t \in Spawned :
          (tstate[t] = "Deleted" /\ t \notin abortedEarly) => Invoked(t)
     /\ \A h \in Handles :
          (State(h) /\ hTask[h] \in Spawned /\ lastState' = "Deleted"
             /\ hTask[h] \notin abortedEarly)
            => Invoked(hTask[h])]_vars

\* C20 witness: state() has returned Deleted for a task whose unit of work
\* was invoked and which was deleted afterwards
C20_Witness ==
  /\ lastState = "Deleted"
  /\ \E h \in Handles :
       /\ hLive[h] /\ hTask[h] \in Spawned
       /\ tstate[hTask[h]] = "Deleted"
       /\ Invoked(hTask[h]) /\ hTask[h] \notin abortedEarly


\* the transitions of a task's state the specification lists: created
\* Ready, Ready to Running, Running to Blocked or Suspended, Blocked or
\* Suspended to Ready, and any live state to Deleted
ListedTransitions ==
  {<<"none", "Ready">>, <<"Ready", "Running">>, <<"Running", "Blocked">>,
   <<"Running", "Suspended">>, <<"Blocked", "Ready">>,
   <<"Suspended", "Ready">>}
  \cup {<<s, "Deleted">> : s \in {"Ready", "Running", "Blocked", "Suspended"}}

\* the transitions the list leaves out: preemption of the running task,
\* and pause() on a task that is ready or blocked
UnlistedTransitions ==
  {<<"Running", "Ready">>, <<"Ready", "Suspended">>,
   <<"Blocked", "Suspended">>}

\* once Deleted a task stays Deleted and its unit of work takes no step
DeletedIsTerminal ==
  \A t \in Spawned :
    tstate[t] = "Deleted" =>
      /\ tstate'[t] = "Deleted"
      /\ tpc'[t] = tpc[t]
      /\ tctx[t] \in Recs => recInvokes'[tctx[t]] = recInvokes[tctx[t]]

\* C21 as claimed: a spawned task's state changes only along the listed
\* transitions, and Deleted is terminal.
C21_OnlyListedTransitions ==
  [][/\ \A t \in Spawned :
          tstate'[t] # tstate[t] => <<tstate[t], tstate'[t]>> \in ListedTransitions
     /\ DeletedIsTerminal]_vars

\* C21 amended: a spawned task's state changes only along the listed
\* transitions or by preemption (Running to Ready) or by a pause() from
\* another task (Ready or Blocked to Suspended), and Deleted is terminal.
C21_ListedOrPreemptOrPause ==
  [][/\ \A t \in Spawned :
          tstate'[t] # tstate[t] =>
            <<tstate[t], tstate'[t]>> \in ListedTransitions \cup UnlistedTransitions
     /\ DeletedIsTerminal]_vars

\* C21 witness: a task was paused before its unit of work started and is
\* Suspended, and another operation was made after that
C21_Witness ==
  \E t \in Spawned :
    tstate[t] = "Suspended" /\ tpc[t] = "entry" /\ tprio[t] = 3


\* task t is between a pause() and the next unpause(): it was paused while
\* alive and has not been resumed, aborted or reaped since
BetweenPauseAndUnpause(t) == t \in paused /\ Live(tstate[t])

C23_AbortIsImmediate ==
  [][/\ \A h \in Handles :
          (Abort(h) /\ hTask[h] \in Spawned /\ Live(tstate[hTask[h]])) =>
            /\ tstate'[hTask[h]] = "Deleted"
            /\ tpc'[hTask[h]] = tpc[hTask[h]]
            /\ pc' = "idle" /\ tstate'[MainTask] = "Running"
            /\ joinTarget' = joinTarget
     /\ DeletedIsTerminal]_vars

\* C23 witness: a task paused in the middle of its unit of work was
\* aborted: it is Deleted and its unit of work never returned
C23_Witness ==
  \E t \in Spawned :
    /\ tstate[t] = "Deleted" /\ tpc[t] = "unit"
    /\ t \in paused /\ t \in consumedT


\* the target of the join in progress cannot return: it is paused, or its
\* unit of work has crashed or was cut short by abort
JoinTargetHeld ==
  /\ joinTarget \in Spawned
  /\ \/ tstate[joinTarget] = "Suspended"
     \/ tpc[joinTarget] = "crashed"
     \/ tstate[joinTarget] = "Deleted" /\ tpc[joinTarget] # "returned"

\* C24 as claimed: under a fair scheduler every join() on a task whose unit
\* of work terminates and which is not left paused eventually returns with
\* the target Deleted, through every handle, one from current() included.
C24_EveryJoinReturns ==
  /\ [](\A t \in joinDone : tstate[t] = "Deleted")
  /\ (pc = "joining") ~> (pc # "joining" \/ JoinTargetHeld)

\* C24 amended: under a fair scheduler a join() on another task whose unit
\* of work terminates and which is not left paused eventually returns with
\* the target Deleted; a join() through a handle from current() targets
\* the caller itself and never returns.
C24_JoinOfOtherTaskReturns ==
  /\ [](\A t \in joinDone : tstate[t] = "Deleted")
  /\ (pc = "joining" /\ joinTarget \in Spawned)
       ~> (pc # "joining" \/ JoinTargetHeld)
  /\ [](pc = "joining" /\ joinTarget = MainTask
          => [](pc = "joining" /\ tstate[MainTask] = "Blocked"))

\* C24 witness: a join() on a spawned task has returned and the task is
\* Deleted, while the main task also holds a handle to itself
C24_Witness ==
  /\ pc = "idle" /\ tstate[MainTask] = "Running"
  /\ \E t \in joinDone : tstate[t] = "Deleted" /\ tpc[t] = "returned"
  /\ \E h \in Handles : hLive[h] /\ hTask[h] = MainTask


\* C25: only values of the bounded enumerations reach the scheduler: every
\* priority weight given to task_create or task_set_priority is 1, 8 or
\* 16, and every stack size given to task_create is 512 or 8192.
C25_OnlyEnumValuesReachScheduler ==
  /\ createArgs.called =>
       /\ createArgs.prio \in {1, 8, 16}
       /\ createArgs.stack \in {512, 8192}
  /\ \A t \in Tasks : tstate[t] # "none" => tprio[t] \in {1, 8, 16}


\* C26: the name buffer of a spawn call is live during the task_create
\* call and has been released once the spawn call has ended, on the
\* success path and on the failure path alike.
C26_NameBufferFreedOnReturn ==
  \A k \in Recs :
    /\ result[k] = "pending" => nameBuf[k] = "live"
    /\ Ended(k) => nameBuf[k] = "freed"


\* spawn call k ended in the panic of CString::new(..).unwrap(): no name
\* buffer was ever made for it
NulPanic(k) == result[k] = "panic" /\ nameBuf[k] = "unalloc"

\* C27 as claimed: every call of spawn or Builder::spawn calls task_create
\* exactly once, whether the call succeeds or fails.
C27_CreateCalledExactlyOnce ==
  \A k \in Recs :
    IF result[k] = "none" THEN ncreate[k] = 0 ELSE ncreate[k] = 1

\* C27 amended: every call of spawn or Builder::spawn calls task_create at
\* most once and never again after a failure: exactly once, except that a
\* call which panics on a name with an interior NUL does not call it.
C27_CreateCalledAtMostOnce ==
  \A k \in Recs :
    /\ ncreate[k] <= 1
    /\ result[k] = "none" => ncreate[k] = 0
    /\ (result[k] # "none" /\ ~NulPanic(k)) => ncreate[k] = 1
    /\ NulPanic(k) => ncreate[k] = 0

\* C27 witness: task_create failed with ENOMEM, the call returned the
\* error and task_create was called once
C27_Witness ==
  \E k \in Recs :
    /\ result[k] = "TCBNotCreated" /\ createRet[k] = NullTask
    /\ ncreate[k] = 1 /\ pc = "idle"

\* C29: Builder::spawn with a name that has an interior NUL byte panics
\* before task_create is called: no task is created, neither a TaskHandle
\* nor a SpawnError is returned, and the unit of work is never invoked.
C29_NulNamePanicsBeforeCreate ==
  (cur \in Recs /\ builder.name = NulName /\ pc \notin {"idle", "building"}) =>
    /\ pc = "panicked"
    /\ result[cur] = "panic"
    /\ ncreate[cur] = 0 /\ ~createArgs.called
    /\ createRet[cur] = NullTask /\ resTask[cur] = NullTask
    /\ recReads[cur] = 0 /\ recInvokes[cur] = 0
    /\ \A t \in Spawned : tstate[t] # "none" => tctx[t] # cur
    /\ \A h \in Handles : hLive[h] => hTask[h] # NullTask /\ hTask[h] # NextTask

\* C29 witness: a Builder named with the NUL name and set to Low priority
\* was spawned and the call panicked
C29_Witness ==
  /\ pc = "panicked" /\ cur \in Recs
  /\ builder.name = NulName /\ builder.priority = "Low"
  /\ NulPanic(cur)


\* the run state, priority and notification slot of every task but those
\* of the set ts are left as they were
OthersUntouched(ts) ==
  \A u \in Tasks \ ts :
    tstate'[u] = tstate[u] /\ tprio'[u] = tprio[u] /\ notif'[u] = notif[u]

\* a call of pause, unpause, set_priority, notify or abort on handle h
MutatesThroughHandle(h) ==
  \/ Pause(h)
  \/ Unpause(h)
  \/ \E w \in WeightInputs : SetPriority(h, w)
  \/ Notify(h)
  \/ Abort(h)

\* state() on handle h changes nothing of the tasks, the handles or the
\* caller: it only returns the state it read
StateChangesNothing(h) ==
  State(h) =>
    UNCHANGED <<pc, builderVars, callVars, recVars, tstate, taskVars, tprio,
                notif, handleVars, joinTarget, takeVars, sleepVars>>

\* C28 as claimed: pause, unpause, set_priority, notify, join and abort on
\* a handle to task T leave the run state, priority and notification slot
\* of every other task unchanged, and state() changes nothing at all.
C28_OnlyTheHandlesTask ==
  [][\A h \in Handles :
       /\ (MutatesThroughHandle(h) \/ Join(h)) => OthersUntouched({hTask[h]})
       /\ StateChangesNothing(h)]_vars

\* C28 amended: pause, unpause, set_priority, notify and abort on a handle
\* to task T leave the run state, priority and notification slot of every
\* other task unchanged; join on a handle to T leaves T and every third
\* task unchanged and blocks the calling task, whose priority and
\* notification slot stay as they were; state() changes nothing at all.
C28_OnlyTheHandlesTaskOrJoinsCaller ==
  [][\A h \in Handles :
       /\ MutatesThroughHandle(h) => OthersUntouched({hTask[h]})
       /\ Join(h) =>
            /\ OthersUntouched({MainTask})
            /\ tstate'[MainTask] = "Blocked"
            /\ tprio'[MainTask] = tprio[MainTask]
            /\ notif'[MainTask] = notif[MainTask]
       /\ StateChangesNothing(h)]_vars

\* C28 witness: a spawned task was given priority 3 and a notification
\* through its handle, and the calling task still runs with its own
\* priority and an empty notification slot
C28_Witness ==
  \E t \in Spawned :
    /\ tprio[t] = 3 /\ notif[t] = 1
    /\ tstate[MainTask] = "Running" /\ pc = "idle"
    /\ tprio[MainTask] = PriorityWeight("Default") /\ notif[MainTask] = 0

====
